---- MODULE Spec2Model ----
(***************************************************************************)
(* A model of the IES4 consolidator (src/ies4_consolidator.py): the        *)
(* version comparator, the folder discovery, the entity merge, the         *)
(* validation and the per-folder orchestration of consolidate_by_country.  *)
(*                                                                         *)
(* Encoding of the Python/JSON values:                                     *)
(*  - a version value is a sequence of one-character strings, so that      *)
(*    split(".") and int() are computed and not assumed; a first element   *)
(*    "#" marks a JSON number (an int) instead of a JSON string;           *)
(*  - a directory or file name is a sequence of characters too, a path is  *)
(*    a sequence of names;                                                 *)
(*  - a dict is a function whose DOMAIN is the set of keys present.        *)
(***************************************************************************)
EXTENDS Integers, Sequences, FiniteSets, TLC

VARIABLES
    pc,        \* position of the call being modelled
    va, vb,    \* the two arguments of a _compare_versions call
    cmp,       \* what that call returned
    mfiles,    \* the json_files of a _merge_json_files call, with their contents
    mnow,      \* what datetime.now().isoformat() gives that call
    merged,    \* what that call returned
    fs,        \* the data directory: its folders, their files, the listing order
    schema,    \* self.schema is not None: the schema file was found and loaded
    clock,     \* how often datetime.now() has been read
    country_folders, \* what _discover_country_folders returned
    idx,       \* the folder the loop of consolidate_by_country is at
    results,   \* the results dict: folder_key -> bool
    outputs,   \* the files of the output directory: file name -> content
    log,       \* history: what the loop did for each folder, in order
    vdata,     \* the document of a call of _validate_ies4_compliance
    verrors    \* the list that call returned

cmpVars == <<va, vb, cmp>>

mergeVars == <<mfiles, mnow, merged>>

runVars == <<fs, schema, clock, country_folders, idx, results, outputs, log>>

valVars == <<vdata, verrors>>

vars == <<pc, cmpVars, mergeVars, runVars, valVars>>

(***************************************************************************)
(* Bounds of the model                                                     *)
(***************************************************************************)
MaxVerLen == 3

\* files in the folder of a merge call, entities per file, entities per call
MaxFiles == 3

MaxEnts == 2

MaxOcc == 3

\* folders holding files in the data directory of a whole run
MaxJsonDirs == 2

(***************************************************************************)
(* Strings as sequences of characters                                      *)
(***************************************************************************)
DigitChars == {"0", "1", "2", "3", "4", "5", "6", "7", "8", "9"}

DigitVal(c) ==
    CASE c = "0" -> 0 [] c = "1" -> 1 [] c = "2" -> 2 [] c = "3" -> 3
      [] c = "4" -> 4 [] c = "5" -> 5 [] c = "6" -> 6 [] c = "7" -> 7
      [] c = "8" -> 8 [] c = "9" -> 9

\* ord(c) of the characters the model uses ("#" < "." < "/" < digits < "\" < "_" < letters)
CharOrd(c) ==
    CASE c = "#" -> 35 [] c = "." -> 46 [] c = "/" -> 47
      [] c \in DigitChars -> 48 + DigitVal(c)
      [] c = "\\" -> 92 [] c = "_" -> 95
      [] c = "a" -> 97 [] c = "i" -> 105 [] c = "k" -> 107 [] c = "n" -> 110
      [] c = "u" -> 117 [] c = "x" -> 120

\* Python's str comparison: by code point, a proper prefix is smaller
RECURSIVE StrLess(_, _)
StrLess(s, t) ==
    IF t = <<>> THEN FALSE
    ELSE IF s = <<>> THEN TRUE
    ELSE IF s[1] # t[1] THEN CharOrd(s[1]) < CharOrd(t[1])
    ELSE StrLess(Tail(s), Tail(t))

\* str.split(sep): the segments between the separators, empty ones included
RECURSIVE SplitFrom(_, _, _)
SplitFrom(s, sep, cur) ==
    IF s = <<>> THEN <<cur>>
    ELSE IF s[1] = sep THEN <<cur>> \o SplitFrom(Tail(s), sep, <<>>)
    ELSE SplitFrom(Tail(s), sep, Append(cur, s[1]))

Split(s, sep) == SplitFrom(s, sep, <<>>)

\* int(x) succeeds: a non-empty run of digits (the model's alphabet holds no
\* sign, blank or underscore, which int() would also accept)
IntParses(seg) == seg # <<>> /\ \A i \in 1..Len(seg) : seg[i] \in DigitChars

RECURSIVE IntOfFrom(_, _)
IntOfFrom(seg, acc) ==
    IF seg = <<>> THEN acc ELSE IntOfFrom(Tail(seg), 10 * acc + DigitVal(seg[1]))

IntOf(seg) == IntOfFrom(seg, 0)

(***************************************************************************)
(* _compare_versions                                                       *)
(***************************************************************************)
\* A JSON number used as a version: it has no .split
IsNumber(v) == v # <<>> /\ v[1] = "#"

NumberOf(v) == IntOf(Tail(v))

\* [int(x) for x in version.split(".")]
VersionParts(v) == [i \in 1..Len(Split(v, ".")) |-> IntOf(Split(v, ".")[i])]

\* the list comprehension raises ValueError
PartsRaise(v) == \E i \in 1..Len(Split(v, ".")) : ~IntParses(Split(v, ".")[i])

Max(a, b) == IF a >= b THEN a ELSE b

\* parts.extend([0] * (max_len - len(parts)))
PadZeros(parts, maxLen) ==
    [i \in 1..Max(Len(parts), maxLen) |-> IF i <= Len(parts) THEN parts[i] ELSE 0]

\* for v1, v2 in zip(v1_parts, v2_parts): the first differing pair decides
RECURSIVE ZipCompare(_, _)
ZipCompare(p1, p2) ==
    IF p1 = <<>> \/ p2 = <<>> THEN 0
    ELSE IF p1[1] > p2[1] THEN 1
    ELSE IF p1[1] < p2[1] THEN -1
    ELSE ZipCompare(Tail(p1), Tail(p2))

\* the except branch: 1 if version1 > version2 else (-1 if version1 < version2 else 0)
FallbackCompare(v1, v2) ==
    IF IsNumber(v1) /\ IsNumber(v2)
    THEN (IF NumberOf(v1) > NumberOf(v2) THEN 1
          ELSE IF NumberOf(v1) < NumberOf(v2) THEN -1 ELSE 0)
    ELSE (IF StrLess(v2, v1) THEN 1 ELSE IF StrLess(v1, v2) THEN -1 ELSE 0)

\* the fallback itself raises TypeError: '>' between an int and a str
CompareRaises(v1, v2) == IsNumber(v1) # IsNumber(v2)

\* the padding left out: zip stops at the shorter list
CompareVersionsNoPad(version1, version2) ==
    IF IsNumber(version1) \/ IsNumber(version2) THEN FallbackCompare(version1, version2)
    ELSE IF PartsRaise(version1) \/ PartsRaise(version2)
    THEN FallbackCompare(version1, version2)
    ELSE ZipCompare(VersionParts(version1), VersionParts(version2))

CompareVersions(version1, version2) ==
    IF IsNumber(version1) \/ IsNumber(version2) THEN FallbackCompare(version1, version2)
    ELSE IF PartsRaise(version1) \/ PartsRaise(version2)
    THEN FallbackCompare(version1, version2)
    ELSE LET v1_parts == VersionParts(version1)
             v2_parts == VersionParts(version2)
             max_len  == Max(Len(v1_parts), Len(v2_parts))
         IN  ZipCompare(PadZeros(v1_parts, max_len), PadZeros(v2_parts, max_len))

(***************************************************************************)
(* Dicts, lists and the constants of IES4Consolidator.__init__             *)
(***************************************************************************)
Has(d, k) == k \in DOMAIN d

Get(d, k, default) == IF Has(d, k) THEN d[k] ELSE default

\* d[k] = v on a copy of d
Put(d, k, v) == [x \in DOMAIN d \cup {k} |-> IF x = k THEN v ELSE d[x]]

EmptyDict == [x \in {} |-> TRUE]

\* A JSON array is [list |-> <<...>>]; a JSON value that is neither an array
\* nor an object is [scalar |-> ...]; an object is the function of its keys.
IsList(v) == Has(v, "list")

IsDict(v) == ~Has(v, "scalar") /\ ~Has(v, "list")

entity_types ==
    << "countries", "areas", "vehicles", "vehicleTypes", "peopleTypes", "people",
       "representations", "organizations", "events", "activities", "facilities",
       "items", "locations", "relationships" >>

EntityTypeSet == {entity_types[i] : i \in 1..Len(entity_types)}

required_ies4_fields == << "id", "type", "timestamp", "version" >>

ies4_version == "4.3.0"

ies4_spec_date == "2024-12-16"

\* the literal "1.0" of entity.get("version", "1.0")
DefaultVersion == << "1", ".", "0" >>

\* "Consolidated IES4 Military Database", as "Consolidated " + a title
DefaultTitle == << "Consolidated ", "IES4 Military Database" >>

(***************************************************************************)
(* _load_json_file: a file's content is a parsed document or not JSON      *)
(***************************************************************************)
None == [none |-> TRUE]

BadJson == [invalid |-> "{ invalid json content"]

LoadJsonFile(file) == IF Has(file.content, "invalid") THEN None ELSE file.content

\* `if not data` / `if data`: None and the empty object are falsy
Falsy(data) == Has(data, "none") \/ DOMAIN data = {}

\* str(file_path.relative_to(self.data_path)): the path below the data directory
RelativePath(file) == file.dir \o <<file.name>>

(***************************************************************************)
(* Timestamps: a string is the sequence of its pieces                      *)
(***************************************************************************)
TsValid == <<"2024-12-01T10:00:00Z">>

TsInvalid == <<"not-a-date">>

\* datetime.now().isoformat() at the n-th reading of the clock
Now(n) == <<"2026-01-01T00:00:00.", ToString(n)>>

\* _validate_timestamp: a str that datetime.fromisoformat parses
ValidateTimestamp(timestamp) ==
    timestamp = TsValid \/ (Len(timestamp) = 2 /\ timestamp[1] = Now(0)[1])

(***************************************************************************)
(* The data directory and _discover_country_folders                        *)
(*  fs.exists    the data directory exists                                 *)
(*  fs.dirs      the directories below it, as paths relative to it         *)
(*  fs.files[d]  the files directly in d, in listing order                 *)
(*  fs.reversed  the order in which the system lists directories           *)
(***************************************************************************)
DirOrder ==
    << << <<"u">> >>, << <<"u">>, <<"a">> >>, << <<"u">>, <<"a">>, <<"x">> >>,
       << <<"u">>, <<"n">> >>, << <<"u", "_", "a">> >>, << <<"i">> >> >>

DirUniverse == {DirOrder[i] : i \in 1..Len(DirOrder)}

Reverse(seq) == [i \in 1..Len(seq) |-> seq[Len(seq) + 1 - i]]

Listing(f) == IF f.reversed THEN Reverse(DirOrder) ELSE DirOrder

\* folder.glob("*.json")
Glob(f, d) == SelectSeq(f.files[d], LAMBDA file : file.ext = ".json")

\* the directories among d.iterdir()
IterDir(f, d) ==
    SelectSeq(Listing(f),
              LAMBDA x : x \in f.dirs /\ Len(x) = Len(d) + 1 /\ SubSeq(x, 1, Len(d)) = d)

\* the directories rglob walks: each one before its subdirectories
RECURSIVE Walk(_, _)
Walk(f, todo) ==
    IF todo = <<>> THEN <<>>
    ELSE <<todo[1]>> \o Walk(f, IterDir(f, todo[1]) \o Tail(todo))

\* parent_folder.rglob("*.json"): the .json files at any depth below parent_folder
RECURSIVE GlobAll(_, _)
GlobAll(f, walk) ==
    IF walk = <<>> THEN <<>> ELSE Glob(f, walk[1]) \o GlobAll(f, Tail(walk))

RGlob(f, parent_folder) == GlobAll(f, Walk(f, <<parent_folder>>))

InSeq(x, seq) == \E i \in 1..Len(seq) : seq[i] = x

\* the loop of _discover_nested_folders over the items rglob yields
RECURSIVE NestedLoop(_, _, _, _)
NestedLoop(f, parent_folder, items, nested_folders) ==
    IF items = <<>> THEN nested_folders
    ELSE LET folder == items[1].dir
         IN  NestedLoop(f, parent_folder, Tail(items),
                 IF folder # parent_folder /\ ~InSeq(folder, nested_folders)
                    /\ Len(Glob(f, folder)) > 0
                 THEN Append(nested_folders, folder)
                 ELSE nested_folders)

\* the same loop with the scan cut at the immediate subdirectories
DiscoverNestedOneLevel(f, parent_folder) ==
    SelectSeq(IterDir(f, parent_folder), LAMBDA d : Glob(f, d) # <<>>)

DiscoverNestedFolders(f, parent_folder) ==
    NestedLoop(f, parent_folder, RGlob(f, parent_folder), <<>>)

\* the loop of _discover_country_folders over data_path.iterdir()
RECURSIVE CountryLoop(_, _, _)
CountryLoop(f, items, found) ==
    IF items = <<>> THEN found
    ELSE CountryLoop(f, Tail(items),
             IF Glob(f, items[1]) # <<>>
             THEN Append(found, items[1])
             ELSE found \o DiscoverNestedFolders(f, items[1]))

DiscoverCountryFolders(f) ==
    IF ~f.exists THEN <<>> ELSE CountryLoop(f, IterDir(f, <<>>), <<>>)

(***************************************************************************)
(* _preserve_source_metadata                                               *)
(***************************************************************************)
PreserveSourceMetadata(merged_data, source_data, source_path) ==
    LET m1 == IF ~Has(merged_data, "title") \/ merged_data["title"] = DefaultTitle
              THEN LET t == IF Has(source_data, "title")
                            THEN Put(merged_data, "title",
                                     <<"Consolidated ">> \o source_data["title"])
                            ELSE merged_data
                   IN  IF Has(source_data, "description")
                       THEN Put(t, "description", source_data["description"])
                       ELSE t
              ELSE merged_data
        meta == m1["consolidationMetadata"]
    IN  IF Has(source_data, "ies4Version") /\ source_data["ies4Version"] # ies4_version
        THEN Put(m1, "consolidationMetadata",
                 Put(meta, "sourceVersions",
                     Put(Get(meta, "sourceVersions", EmptyDict), source_path,
                         source_data["ies4Version"])))
        ELSE m1

(***************************************************************************)
(* _merge_json_files                                                       *)
(***************************************************************************)
\* the stamps both branches put on entity.copy()
Stamped(entity, relative_path, timestamp) ==
    Put(Put(entity, "_sourceFiles", <<relative_path>>), "_consolidatedAt", timestamp)

\* the defaults mixed up: an absent version is filled with the merge timestamp
FirstSeenEntityClockVersion(entity, relative_path, timestamp) ==
    LET e1 == Stamped(entity, relative_path, timestamp)
        e2 == IF Has(e1, "timestamp") THEN e1 ELSE Put(e1, "timestamp", timestamp)
    IN  IF Has(e2, "version") THEN e2 ELSE Put(e2, "version", timestamp)

\* the entity appended when its id is seen for the first time
FirstSeenEntity(entity, relative_path, timestamp) ==
    LET e1 == Stamped(entity, relative_path, timestamp)
        e2 == IF Has(e1, "timestamp") THEN e1 ELSE Put(e1, "timestamp", timestamp)
    IN  IF Has(e2, "version") THEN e2 ELSE Put(e2, "version", DefaultVersion)

\* the entity that replaces an older version
ReplacingEntity(entity, relative_path, timestamp, existing_version) ==
    Put(Stamped(entity, relative_path, timestamp), "_replacedVersion", existing_version)

\* for i, existing_entity in enumerate(...): if existing_entity["id"] == entity_id
IndexOfId(lst, entity_id) ==
    CHOOSE i \in 1..Len(lst) :
        /\ lst[i]["id"] = entity_id
        /\ \A j \in 1..(i - 1) : lst[j]["id"] # entity_id

\* the first-seen branch corrupted: the id is never recorded as seen
AddFirstSeenUntracked(st, entity_type, entity, relative_path, timestamp) ==
    [st EXCEPT
        !.merged_data[entity_type] =
            [list |-> Append(@.list, FirstSeenEntity(entity, relative_path, timestamp))],
        !.entity_versions[entity_type] =
            Put(@, entity["id"], Get(entity, "version", DefaultVersion))]

AddFirstSeen(st, entity_type, entity, relative_path, timestamp) ==
    [st EXCEPT
        !.merged_data[entity_type] =
            [list |-> Append(@.list, FirstSeenEntity(entity, relative_path, timestamp))],
        !.entity_tracker[entity_type] = @ \cup {entity["id"]},
        !.entity_versions[entity_type] =
            Put(@, entity["id"], Get(entity, "version", DefaultVersion))]

\* the replacement corrupted: the recorded version is not updated
ReplaceExistingStale(st, entity_type, entity, relative_path, timestamp) ==
    LET entity_id == entity["id"]
        existing_version == st.entity_versions[entity_type][entity_id]
        i == IndexOfId(st.merged_data[entity_type].list, entity_id)
    IN  [st EXCEPT
            !.merged_data[entity_type] =
                [list |-> [@.list EXCEPT ![i] =
                    ReplacingEntity(entity, relative_path, timestamp, existing_version)]]]

\* the replacement moved: the stored entity is removed and the new one appended
ReplaceExistingAtEnd(st, entity_type, entity, relative_path, timestamp) ==
    LET entity_id == entity["id"]
        existing_version == st.entity_versions[entity_type][entity_id]
        new_version == Get(entity, "version", DefaultVersion)
        i == IndexOfId(st.merged_data[entity_type].list, entity_id)
    IN  [st EXCEPT
            !.merged_data[entity_type] =
                [list |-> Append(SubSeq(@.list, 1, i - 1) \o SubSeq(@.list, i + 1, Len(@.list)),
                    ReplacingEntity(entity, relative_path, timestamp, existing_version))],
            !.entity_versions[entity_type] = Put(@, entity_id, new_version)]

ReplaceExisting(st, entity_type, entity, relative_path, timestamp) ==
    LET entity_id == entity["id"]
        existing_version == st.entity_versions[entity_type][entity_id]
        new_version == Get(entity, "version", DefaultVersion)
        i == IndexOfId(st.merged_data[entity_type].list, entity_id)
    IN  [st EXCEPT
            !.merged_data[entity_type] =
                [list |-> [@.list EXCEPT ![i] =
                    ReplacingEntity(entity, relative_path, timestamp, existing_version)]],
            !.entity_versions[entity_type] = Put(@, entity_id, new_version)]

\* the body of `for entity in data[entity_type]`
MergeEntity(st, entity_type, entity, relative_path, timestamp) ==
    IF st.raised THEN st
    ELSE IF ~(IsDict(entity) /\ Has(entity, "id")) THEN st
    ELSE IF entity["id"] \notin st.entity_tracker[entity_type]
    THEN AddFirstSeen(st, entity_type, entity, relative_path, timestamp)
    ELSE LET existing_version == st.entity_versions[entity_type][entity["id"]]
             new_version == Get(entity, "version", DefaultVersion)
         IN  IF CompareRaises(new_version, existing_version)
             THEN [st EXCEPT !.raised = TRUE]
             ELSE IF CompareVersions(new_version, existing_version) > 0
             THEN ReplaceExisting(st, entity_type, entity, relative_path, timestamp)
             ELSE st

RECURSIVE MergeList(_, _, _, _, _)
MergeList(st, entity_type, lst, relative_path, timestamp) ==
    IF lst = <<>> THEN st
    ELSE MergeList(MergeEntity(st, entity_type, lst[1], relative_path, timestamp),
                   entity_type, Tail(lst), relative_path, timestamp)

\* for entity_type in self.entity_types: ... (types: the types still to do)
RECURSIVE MergeTypes(_, _, _, _, _)
MergeTypes(st, data, types, relative_path, timestamp) ==
    IF types = <<>> THEN st
    ELSE LET entity_type == types[1]
             st1 == IF Has(data, entity_type) /\ IsList(data[entity_type])
                    THEN MergeList(st, entity_type, data[entity_type].list,
                                   relative_path, timestamp)
                    ELSE st
         IN  MergeTypes(st1, data, Tail(types), relative_path, timestamp)

\* a file that does not load ends the merge with an exception
MergeFileAborting(st, file, timestamp) ==
    LET data == LoadJsonFile(file)
    IN  IF st.raised \/ Has(data, "none") THEN [st EXCEPT !.raised = TRUE]
        ELSE IF Falsy(data) THEN st
        ELSE MergeTypes(st, data, entity_types, RelativePath(file), timestamp)

\* the body of `for file_path in json_files`
MergeFile(st, file, timestamp) ==
    LET data == LoadJsonFile(file)
        relative_path == RelativePath(file)
    IN  IF st.raised \/ Falsy(data) THEN st
        ELSE LET meta == st.merged_data["consolidationMetadata"]
                 listed == Put(st.merged_data, "consolidationMetadata",
                     [meta EXCEPT !.consolidatedFiles =
                         Append(@, [path |-> relative_path, size |-> file.size,
                                    processedAt |-> timestamp])])
                 kept == PreserveSourceMetadata(listed, data, relative_path)
             IN  MergeTypes([st EXCEPT !.merged_data = kept], data, entity_types,
                            relative_path, timestamp)

RECURSIVE MergeFiles(_, _, _)
MergeFiles(st, json_files, timestamp) ==
    IF json_files = <<>> THEN st
    ELSE MergeFiles(MergeFile(st, json_files[1], timestamp), Tail(json_files), timestamp)

\* the count taken of the files that load instead of the files listed
MergeStartParsedCount(json_files, timestamp) ==
    [merged_data |->
        [k \in {"$schema", "title", "description", "ies4Version", "specificationDate",
                "consolidationMetadata"} \cup EntityTypeSet |->
            CASE k = "$schema" -> "http://json-schema.org/draft-07/schema#"
              [] k = "title" -> DefaultTitle
              [] k = "description" -> <<"Consolidated database created on ", timestamp>>
              [] k = "ies4Version" -> ies4_version
              [] k = "specificationDate" -> ies4_spec_date
              [] k = "consolidationMetadata" ->
                    [timestamp |-> timestamp,
                     consolidatedFiles |-> <<>>,
                     sourceFileCount |->
                        Len(SelectSeq(json_files,
                                      LAMBDA file : ~Has(LoadJsonFile(file), "none"))),
                     consolidationTool |-> "IES4Consolidator",
                     toolVersion |-> "2.0"]
              [] OTHER -> [list |-> <<>>]],
     entity_tracker |-> [t \in EntityTypeSet |-> {}],
     entity_versions |-> [t \in EntityTypeSet |-> EmptyDict],
     raised |-> FALSE]

\* merged_data and the trackers before the first file
MergeStart(json_files, timestamp) ==
    [merged_data |->
        [k \in {"$schema", "title", "description", "ies4Version", "specificationDate",
                "consolidationMetadata"} \cup EntityTypeSet |->
            CASE k = "$schema" -> "http://json-schema.org/draft-07/schema#"
              [] k = "title" -> DefaultTitle
              [] k = "description" -> <<"Consolidated database created on ", timestamp>>
              [] k = "ies4Version" -> ies4_version
              [] k = "specificationDate" -> ies4_spec_date
              [] k = "consolidationMetadata" ->
                    [timestamp |-> timestamp,
                     consolidatedFiles |-> <<>>,
                     sourceFileCount |-> Len(json_files),
                     consolidationTool |-> "IES4Consolidator",
                     toolVersion |-> "2.0"]
              [] OTHER -> [list |-> <<>>]],
     entity_tracker |-> [t \in EntityTypeSet |-> {}],
     entity_versions |-> [t \in EntityTypeSet |-> EmptyDict],
     raised |-> FALSE]

\* the condition count > 0 left out: every type gets its count
EntityCountsWithZeros(doc) ==
    [t \in EntityTypeSet |-> Len(doc[t].list)]

\* consolidationMetadata["entityCounts"]: the types with count > 0
EntityCounts(doc) ==
    [t \in {u \in EntityTypeSet : Len(doc[u].list) > 0} |-> Len(doc[t].list)]

\* the result: [raised |-> TRUE] when an exception leaves the function, else
\* [raised |-> FALSE, data |-> merged_data]
MergeJsonFiles(json_files, timestamp) ==
    LET st == MergeFiles(MergeStart(json_files, timestamp), json_files, timestamp)
    IN  IF st.raised THEN [raised |-> TRUE]
        ELSE [raised |-> FALSE,
              data |-> Put(st.merged_data, "consolidationMetadata",
                           Put(st.merged_data["consolidationMetadata"], "entityCounts",
                               EntityCounts(st.merged_data)))]

(***************************************************************************)
(* _validate_ies4_compliance and _validate_json_structure                  *)
(***************************************************************************)
RECURSIVE Flatten(_)
Flatten(seqs) == IF seqs = <<>> THEN <<>> ELSE seqs[1] \o Flatten(Tail(seqs))

Violation(entity_type, i, rule, field) ==
    [entity_type |-> entity_type, index |-> i, rule |-> rule, field |-> field]

\* an id that is a JSON number, not a str
NumberId == "#7"

\* not isinstance(entity["id"], str) or not entity["id"].strip()
InvalidId(id) == id = NumberId \/ id \in {"", " "}

\* the required fields cut down to id and type
EntityErrorsIdAndType(entity_type, i, entity) ==
    IF ~IsDict(entity)
    THEN << [entity_type |-> entity_type, index |-> i,
             rule |-> "Entity must be an object", field |-> ""] >>
    ELSE (IF ~Has(entity, "id")
          THEN << [entity_type |-> entity_type, index |-> i,
                   rule |-> "Missing required field", field |-> "id"] >> ELSE <<>>)
         \o (IF ~Has(entity, "type")
             THEN << [entity_type |-> entity_type, index |-> i,
                      rule |-> "Missing required field", field |-> "type"] >> ELSE <<>>)
         \o (IF Has(entity, "id") /\ InvalidId(entity["id"])
             THEN << [entity_type |-> entity_type, index |-> i,
                      rule |-> "Invalid ID format", field |-> "id"] >> ELSE <<>>)
         \o (IF Has(entity, "timestamp") /\ ~ValidateTimestamp(entity["timestamp"])
             THEN << [entity_type |-> entity_type, index |-> i,
                      rule |-> "Invalid timestamp format", field |-> "timestamp"] >>
             ELSE <<>>)

\* the errors of entity number i (from 0) of data[entity_type]
EntityErrors(entity_type, i, entity) ==
    IF ~IsDict(entity)
    THEN << Violation(entity_type, i, "Entity must be an object", "") >>
    ELSE Flatten([k \in 1..Len(required_ies4_fields) |->
                    IF ~Has(entity, required_ies4_fields[k])
                    THEN << Violation(entity_type, i, "Missing required field",
                                      required_ies4_fields[k]) >>
                    ELSE <<>>])
         \o (IF Has(entity, "id") /\ InvalidId(entity["id"])
             THEN << Violation(entity_type, i, "Invalid ID format", "id") >> ELSE <<>>)
         \o (IF Has(entity, "timestamp") /\ ~ValidateTimestamp(entity["timestamp"])
             THEN << Violation(entity_type, i, "Invalid timestamp format", "timestamp") >>
             ELSE <<>>)

ValidateIes4Compliance(data) ==
    Flatten([k \in 1..Len(entity_types) |->
        LET entity_type == entity_types[k]
        IN  IF Has(data, entity_type) /\ IsList(data[entity_type])
            THEN Flatten([j \in 1..Len(data[entity_type].list) |->
                            EntityErrors(entity_type, j - 1, data[entity_type].list[j])])
            ELSE <<>>])

\* what _validate_ies4_compliance leaves in data: the two tags, set when absent
WithIes4Defaults(data) ==
    LET d1 == IF Has(data, "ies4Version") THEN data ELSE Put(data, "ies4Version", ies4_version)
    IN  IF Has(d1, "specificationDate") THEN d1
        ELSE Put(d1, "specificationDate", ies4_spec_date)

\* validation_errors of _validate_json_structure; schemaViolation is what
\* jsonschema.validate answers (never a violation without a schema)
ValidationErrors(data, hasSchema, schemaViolation) ==
    (IF hasSchema /\ schemaViolation
     THEN << Violation("", 0, "Schema validation", "") >> ELSE <<>>)
    \o ValidateIes4Compliance(data)

ValidateJsonStructure(data, hasSchema, schemaViolation) ==
    ValidationErrors(data, hasSchema, schemaViolation) = <<>>

(***************************************************************************)
(* _save_consolidated_file                                                 *)
(*  env.schemaViolation  the answer of jsonschema.validate                 *)
(*  env.write            "ok", or where the write fails: "open_fails"      *)
(*                       before the file is touched, "dump_fails" after    *)
(*                       open(..., "w") has truncated it                   *)
(* The result: [result, write, content]; write is "none", "full" or        *)
(* "partial", content is what a full write leaves in the file.             *)
(***************************************************************************)
Truncated == [truncated |-> TRUE]

NotSaved == [result |-> FALSE, write |-> "none", content |-> None]

\* the write moved in front of the validation
SaveConsolidatedFileUnchecked(data, hasSchema, env) ==
    IF env.write = "ok"
    THEN [result |-> ValidateJsonStructure(data, hasSchema, env.schemaViolation),
          write |-> "full", content |-> WithIes4Defaults(data)]
    ELSE IF env.write = "dump_fails"
    THEN [result |-> FALSE, write |-> "partial", content |-> None]
    ELSE NotSaved

SaveConsolidatedFile(data, hasSchema, env) ==
    IF ~ValidateJsonStructure(data, hasSchema, env.schemaViolation) THEN NotSaved
    ELSE IF env.write = "ok"
    THEN [result |-> TRUE, write |-> "full", content |-> WithIes4Defaults(data)]
    ELSE IF env.write = "dump_fails"
    THEN [result |-> FALSE, write |-> "partial", content |-> None]
    ELSE NotSaved

(***************************************************************************)
(* _enhance_single_file_metadata                                           *)
(***************************************************************************)
\* the count loop of the single-file path: only the keys holding a list
SingleEntityCounts(doc) ==
    [t \in {u \in EntityTypeSet : Has(doc, u) /\ IsList(doc[u]) /\ Len(doc[u].list) > 0}
        |-> Len(doc[t].list)]

EnhanceSingleFileMetadata(data, source_file, timestamp) ==
    LET e1 == Put(Put(data, "ies4Version", ies4_version),
                  "specificationDate", ies4_spec_date)
    IN  Put(e1, "consolidationMetadata",
            [timestamp |-> timestamp,
             consolidatedFiles |-> << [path |-> RelativePath(source_file),
                                       size |-> source_file.size,
                                       processedAt |-> timestamp] >>,
             sourceFileCount |-> 1,
             consolidationTool |-> "IES4Consolidator",
             toolVersion |-> "2.0",
             entityCounts |-> SingleEntityCounts(e1)])

(***************************************************************************)
(* consolidate_by_country: the folder key and one turn of its loop         *)
(***************************************************************************)
\* str(path) of a relative path: the names joined by "/"
RECURSIVE PathStr(_)
PathStr(path) ==
    IF path = <<>> THEN <<>>
    ELSE IF Len(path) = 1 THEN path[1]
    ELSE path[1] \o <<"/">> \o PathStr(Tail(path))

\* str.replace(old, new) for one-character strings
ReplaceChar(str, old, new) == [i \in 1..Len(str) |-> IF str[i] = old THEN new ELSE str[i]]

FolderKey(country_folder) ==
    ReplaceChar(ReplaceChar(PathStr(country_folder), "/", "_"), "\\", "_")

\* f"ies4_{folder_key}_consolidated.json"
OutputFile(folder_key) == <<"ies4_">> \o folder_key \o <<"_consolidated.json">>

\* the merge fed with the .json files of every folder of the data directory
PrepareFolderAcrossFolders(f, country_folder, timestamp) ==
    LET json_files == Glob(f, country_folder)
        all_files == GlobAll(f, Walk(f, IterDir(f, <<>>)))
    IN  IF Len(json_files) = 0
        THEN [route |-> "none", handed |-> None, raised |-> FALSE]
        ELSE IF Len(json_files) = 1
        THEN LET data == LoadJsonFile(json_files[1])
             IN  [route |-> "single", raised |-> FALSE,
                  handed |-> IF ~Falsy(data)
                             THEN EnhanceSingleFileMetadata(data, json_files[1], timestamp)
                             ELSE None]
        ELSE LET m == MergeJsonFiles(all_files, timestamp)
             IN  [route |-> "merge", raised |-> m.raised,
                  handed |-> IF m.raised THEN None ELSE m.data]

\* what one turn of the loop hands to _save_consolidated_file:
\*  route   "none" (no .json file), "single" or "merge"
\*  handed  the document handed over, None if none was
\*  raised  an exception reached the except clause of the loop
PrepareFolder(f, country_folder, timestamp) ==
    LET json_files == Glob(f, country_folder)
    IN  IF Len(json_files) = 0
        THEN [route |-> "none", handed |-> None, raised |-> FALSE]
        ELSE IF Len(json_files) = 1
        THEN LET data == LoadJsonFile(json_files[1])
             IN  [route |-> "single", raised |-> FALSE,
                  handed |-> IF ~Falsy(data)
                             THEN EnhanceSingleFileMetadata(data, json_files[1], timestamp)
                             ELSE None]
        ELSE LET m == MergeJsonFiles(json_files, timestamp)
             IN  [route |-> "merge", raised |-> m.raised,
                  handed |-> IF m.raised THEN None ELSE m.data]

\* what the turn does with it: prep and
\*  errors  the validation errors of the document handed over
\*  result, write, content   as for _save_consolidated_file
FolderOutcome(prep, hasSchema, env) ==
    LET errors == IF Has(prep.handed, "none") THEN <<>>
                  ELSE ValidationErrors(prep.handed, hasSchema, env.schemaViolation)
        saved == IF Has(prep.handed, "none") THEN NotSaved
                 ELSE SaveConsolidatedFile(prep.handed, hasSchema, env)
    IN  [route |-> prep.route, handed |-> prep.handed, raised |-> prep.raised,
         errors |-> errors,
         result |-> saved.result, write |-> saved.write, content |-> saved.content]

ConsolidateFolder(f, country_folder, timestamp, hasSchema, env) ==
    FolderOutcome(PrepareFolder(f, country_folder, timestamp), hasSchema, env)

\* this turn reads the clock: _merge_json_files or _enhance_single_file_metadata runs
ReadsClock(f, country_folder) ==
    LET json_files == Glob(f, country_folder)
    IN  Len(json_files) > 1 \/ (Len(json_files) = 1 /\ ~Falsy(LoadJsonFile(json_files[1])))

Envs == [schemaViolation : BOOLEAN, write : {"ok", "open_fails", "dump_fails"}]

\* country_folders = self._discover_country_folders(); results = {}
Discover ==
    /\ pc = "start"
    /\ country_folders' = DiscoverCountryFolders(fs)
    /\ idx' = 1
    /\ results' = EmptyDict
    /\ pc' = IF country_folders' = <<>> THEN "done" ELSE "loop"
    /\ UNCHANGED <<valVars, cmpVars, mergeVars, fs, schema, clock, outputs, log>>

\* one turn of `for country_folder in country_folders`
ProcessFolder ==
    /\ pc = "loop"
    /\ idx <= Len(country_folders)
    /\ \E prep \in {PrepareFolder(fs, country_folders[idx], Now(clock + 1))} :
       \E env \in Envs :
       \E out \in {FolderOutcome(prep, schema, env)} :
          LET country_folder == country_folders[idx]
              folder_key == FolderKey(country_folder)
          IN  /\ env.schemaViolation => schema
              /\ results' = Put(results, folder_key, out.result)
              /\ outputs' = CASE out.write = "full" ->
                                    Put(outputs, OutputFile(folder_key), out.content)
                              [] out.write = "partial" ->
                                    Put(outputs, OutputFile(folder_key), Truncated)
                              [] OTHER -> outputs
              /\ log' = Append(log, [folder |-> country_folder, key |-> folder_key,
                                     timestamp |-> Now(clock + 1), env |-> env,
                                     out |-> out])
              /\ clock' = IF ReadsClock(fs, country_folder) THEN clock + 1 ELSE clock
    /\ idx' = idx + 1
    /\ pc' = IF idx' > Len(country_folders) THEN "done" ELSE "loop"
    /\ UNCHANGED <<valVars, cmpVars, mergeVars, fs, schema, country_folders>>

Next == Discover \/ ProcessFolder

(***************************************************************************)
(* The comparator on its own: every pair of strings over VerAlphabet       *)
(***************************************************************************)
VerAlphabet == {".", "0", "1"}

VersionStrings == UNION {[1..n -> VerAlphabet] : n \in 0..MaxVerLen}

WellFormed(v) == ~IsNumber(v) /\ ~PartsRaise(v)

\* the variables of the other calls, at rest
CmpIdle == va = <<>> /\ vb = <<>> /\ cmp = 0

MergeIdle == mfiles = <<>> /\ mnow = <<>> /\ merged = None

ValIdle == vdata = None /\ verrors = <<>>

RunIdle ==
    /\ fs = None /\ schema = FALSE /\ clock = 0 /\ country_folders = <<>> /\ idx = 0
    /\ results = EmptyDict /\ outputs = EmptyDict /\ log = <<>>

CmpInit ==
    /\ pc = "cmp_call"
    /\ va \in VersionStrings
    /\ vb \in VersionStrings
    /\ cmp = 0
    /\ MergeIdle
    /\ ValIdle
    /\ RunIdle

CmpCall ==
    /\ pc = "cmp_call"
    /\ ~CompareRaises(va, vb)
    /\ cmp' = CompareVersions(va, vb)
    /\ pc' = "cmp_done"
    /\ UNCHANGED <<valVars, va, vb, mergeVars, runVars>>

CmpNext == CmpCall

SpecCmp == CmpInit /\ [][CmpNext]_vars

(***************************************************************************)
(* The merge on its own: the files of one folder, drawn from EntityChoices *)
(***************************************************************************)
NowValues == {Now(1), Now(2)}

Ver(a, b) == <<a, ".", b>>

VehicleChoices ==
    { [id |-> "a", type |-> "Drone", timestamp |-> TsValid, version |-> Ver("1", "0")],
      [id |-> "a", type |-> "Drone", timestamp |-> TsValid, version |-> Ver("2", "0")],
      [id |-> "a", type |-> "Drone", timestamp |-> TsValid, version |-> Ver("0", "9")],
      [id |-> "a", type |-> "Drone", timestamp |-> TsValid,
       version |-> <<"1", ".", "0", ".", "0">>],
      [id |-> "a", type |-> "Drone"],
      [id |-> "a", type |-> "Drone", timestamp |-> TsValid, version |-> <<"1", ".">>],
      [id |-> "a", type |-> "Drone", timestamp |-> TsValid, version |-> <<"#", "2">>],
      [id |-> "b", type |-> "Drone", timestamp |-> TsValid, version |-> Ver("1", "0")],
      [type |-> "Drone", timestamp |-> TsValid, version |-> Ver("1", "0")],
      [scalar |-> "text"] }

PeopleChoices ==
    { [id |-> "a", type |-> "Pilot", timestamp |-> TsValid, version |-> Ver("1", "0")],
      [id |-> "a", type |-> "Pilot", timestamp |-> TsValid, version |-> Ver("2", "0")] }

\* an entity of the input and the collection of its file it stands in
EntityChoices ==
    {[coll |-> "vehicles", e |-> x] : x \in VehicleChoices}
    \cup {[coll |-> "people", e |-> x] : x \in PeopleChoices}

\* what a file of the folder looks like: not JSON, the empty object, or a
\* document with len entities
FileShapes ==
    { [kind |-> "bad", len |-> 0], [kind |-> "empty", len |-> 0] }
    \cup { [kind |-> "doc", len |-> l] : l \in 0..MaxEnts }

RECURSIVE TotalLen(_)
TotalLen(shapes) ==
    IF shapes = <<>> THEN 0 ELSE shapes[1].len + TotalLen(Tail(shapes))

\* every entity of the input carries its own name: <<file, position>>
Named(e, i, j) == IF IsDict(e) THEN Put(e, "name", <<i, j>>) ELSE e

RECURSIVE InCollection(_, _)
InCollection(choices, coll) ==
    IF choices = <<>> THEN <<>>
    ELSE (IF choices[1].coll = coll THEN <<choices[1].e>> ELSE <<>>)
         \o InCollection(Tail(choices), coll)

MergeDir == << <<"i">> >>

FileName(i) == <<"f", ToString(i)>>

\* file i of the folder: its entities are ents[off + 1 .. off + len]
InputFile(i, shape, ents, off) ==
    LET es == [j \in 1..shape.len |->
                  [coll |-> ents[off + j].coll, e |-> Named(ents[off + j].e, i, j)]]
        doc == IF InCollection(es, "people") # <<>>
               THEN [vehicles |-> [list |-> InCollection(es, "vehicles")],
                     people |-> [list |-> InCollection(es, "people")]]
               ELSE [vehicles |-> [list |-> InCollection(es, "vehicles")]]
    IN  [dir |-> MergeDir, name |-> FileName(i), ext |-> ".json", size |-> 100 + i,
         content |-> CASE shape.kind = "bad" -> BadJson
                       [] shape.kind = "empty" -> EmptyDict
                       [] OTHER -> doc]

InputFiles(shapes, ents) ==
    [i \in 1..Len(shapes) |-> InputFile(i, shapes[i], ents, TotalLen(SubSeq(shapes, 1, i - 1)))]

MergeInit ==
    /\ pc = "merge_call"
    /\ \E n \in 1..MaxFiles : \E shapes \in [1..n -> FileShapes] :
          /\ TotalLen(shapes) <= MaxOcc
          /\ \E ents \in [1..TotalLen(shapes) -> EntityChoices] :
                mfiles = InputFiles(shapes, ents)
    /\ mnow \in NowValues
    /\ merged = None
    /\ CmpIdle
    /\ RunIdle
    /\ ValIdle

MergeCall ==
    /\ pc = "merge_call"
    /\ merged' = MergeJsonFiles(mfiles, mnow)
    /\ pc' = "merge_done"
    /\ UNCHANGED <<valVars, cmpVars, mfiles, mnow, runVars>>

MergeNext == MergeCall

SpecMerge == MergeInit /\ [][MergeNext]_vars

(***************************************************************************)
(* What the input of a merge call holds, read off the files themselves     *)
(***************************************************************************)
\* the entities file `file` lists under entity_type, each with the file's path
OccOfFile(file, entity_type) ==
    LET data == LoadJsonFile(file)
    IN  IF ~Falsy(data) /\ Has(data, entity_type) /\ IsList(data[entity_type])
        THEN [j \in 1..Len(data[entity_type].list) |->
                 [e |-> data[entity_type].list[j], path |-> RelativePath(file)]]
        ELSE <<>>

RECURSIVE AllOcc(_, _)
AllOcc(files, entity_type) ==
    IF files = <<>> THEN <<>>
    ELSE OccOfFile(files[1], entity_type) \o AllOcc(Tail(files), entity_type)

HasId(e) == IsDict(e) /\ Has(e, "id")

\* the occurrences of (entity_type, id), in processing order
OccOfId(files, entity_type, id) ==
    SelectSeq(AllOcc(files, entity_type), LAMBDA o : HasId(o.e) /\ o.e["id"] = id)

VersionOf(e) == Get(e, "version", DefaultVersion)

InputIds == {"a", "b"}

\* occurrence k carries a greatest version and no earlier one does
EarliestMax(occ, k) ==
    /\ \A j \in 1..Len(occ) : CompareVersions(VersionOf(occ[k].e), VersionOf(occ[j].e)) >= 0
    /\ \A j \in 1..(k - 1) : CompareVersions(VersionOf(occ[j].e), VersionOf(occ[k].e)) < 0

\* the entities with this id in an output collection
Survivors(lst, id) == {i \in 1..Len(lst) : HasId(lst[i]) /\ lst[i]["id"] = id}

MergeDone == pc = "merge_done" /\ ~merged.raised

\* C1: after _merge_json_files, for every (entity-type, id) of the input whose
\* versions are all well-formed (an absent one counting as "1.0"), exactly one
\* entity with that id is in the output collection; it is the earliest
\* occurrence among those with the greatest version under _compare_versions:
\* it has every field of that occurrence, a version that compares equal to the
\* greatest one, and that occurrence's file as _sourceFiles.
C1_MaxVersionEarliestWins ==
    MergeDone =>
        \A t \in EntityTypeSet : \A id \in InputIds :
            LET occ == OccOfId(mfiles, t, id)
                out == merged.data[t].list
            IN  (occ # <<>> /\ \A k \in 1..Len(occ) : WellFormed(VersionOf(occ[k].e))) =>
                    /\ Cardinality(Survivors(out, id)) = 1
                    /\ \A i \in Survivors(out, id) : \A k \in 1..Len(occ) :
                         EarliestMax(occ, k) =>
                            /\ \A f \in DOMAIN occ[k].e : out[i][f] = occ[k].e[f]
                            /\ CompareVersions(VersionOf(out[i]), VersionOf(occ[k].e)) = 0
                            /\ out[i]["_sourceFiles"] = <<occ[k].path>>

\* C1 witness: three well-formed occurrences of one id; the second replaced
\* the first and the third, written differently, ties with the second.
C1_Witness ==
    /\ MergeDone
    /\ \E t \in EntityTypeSet : \E id \in InputIds :
         LET occ == OccOfId(mfiles, t, id)
         IN  /\ Len(occ) = 3
             /\ \A k \in 1..3 : WellFormed(VersionOf(occ[k].e))
             /\ EarliestMax(occ, 2)
             /\ CompareVersions(VersionOf(occ[3].e), VersionOf(occ[2].e)) = 0
             /\ VersionOf(occ[3].e) # VersionOf(occ[2].e)
             /\ \E i \in Survivors(merged.data[t].list, id) :
                  Has(merged.data[t].list[i], "_replacedVersion")

\* the entities of a list that are objects without an id
IdLess(lst) == SelectSeq(lst, LAMBDA e : IsDict(e) /\ ~Has(e, "id"))

\* C3: every entity without an id of a recognized list is kept by
\* _merge_json_files: the output collection holds as many id-less entities as
\* the loaded input documents list for that type.
C3_IdLessKept ==
    MergeDone =>
        \A t \in EntityTypeSet :
            Len(IdLess(merged.data[t].list))
                = Len(IdLess([k \in 1..Len(AllOcc(mfiles, t)) |-> AllOcc(mfiles, t)[k].e]))

(***************************************************************************)
(* The comparator against its description                                  *)
(***************************************************************************)
\* segment i of a well-formed version as an integer, 0 beyond its last segment
SegValue(v, i) == IF i <= Len(Split(v, ".")) THEN IntOf(Split(v, ".")[i]) ELSE 0

\* the comparison the description gives: the first position, left to right,
\* at which the zero-padded integer segments differ decides
SegmentOrder(a, b) ==
    LET n == Max(Len(Split(a, ".")), Len(Split(b, ".")))
        diff == {i \in 1..n : SegValue(a, i) # SegValue(b, i)}
    IN  IF diff = {} THEN 0
        ELSE LET k == CHOOSE i \in diff : \A j \in diff : i <= j
             IN  IF SegValue(a, k) > SegValue(b, k) THEN 1 ELSE -1

\* C9: for well-formed dotted-numeric a, b, c, _compare_versions(a, b) is the
\* left-to-right comparison of the zero-padded integer segments, it is
\* antisymmetric (compare(a, b) = -compare(b, a)) and transitive (a > b and
\* b > c imply a > c).
C9_SegmentOrder ==
    (pc = "cmp_done" /\ WellFormed(va) /\ WellFormed(vb)) =>
        /\ cmp = SegmentOrder(va, vb)
        /\ cmp = -CompareVersions(vb, va)
        /\ \A c \in VersionStrings :
             (WellFormed(c) /\ cmp = 1 /\ CompareVersions(vb, c) = 1) =>
                 CompareVersions(va, c) = 1

\* C9 witness: "1.0" against "1" compares equal, by the zero padding alone
C9_Witness ==
    /\ pc = "cmp_done"
    /\ va = <<"1", ".", "0">>
    /\ vb = <<"1">>
    /\ cmp = 0

(***************************************************************************)
(* The discovery on its own: every tree over DirUniverse                   *)
(***************************************************************************)
MinimalDoc == [vehicles |-> [list |-> <<>>]]

FileIn(d, i, ext, content) ==
    [dir |-> d, name |-> FileName(i), ext |-> ext, size |-> 100 + i, content |-> content]

\* what a directory of the tree may be
DirKinds == {"absent", "empty", "txt", "json", "json2"}

DirContent(d, kind) ==
    CASE kind = "txt" -> << FileIn(d, 1, ".txt", BadJson) >>
      [] kind = "json" -> << FileIn(d, 1, ".json", MinimalDoc) >>
      [] kind = "json2" ->
            << FileIn(d, 1, ".json", MinimalDoc), FileIn(d, 2, ".json", BadJson) >>
      [] OTHER -> <<>>

\* every directory but the data directory has its parent in the tree
IsTree(dirs) == \A d \in dirs : Len(d) > 1 => SubSeq(d, 1, Len(d) - 1) \in dirs

TreeOf(kinds, exists, reversed) ==
    [exists |-> exists,
     dirs |-> {d \in DirUniverse : kinds[d] # "absent"},
     files |-> [d \in {x \in DirUniverse : kinds[x] # "absent"} |-> DirContent(d, kinds[d])],
     reversed |-> reversed]

DiscInit ==
    /\ pc = "disc_call"
    /\ \E kinds \in [DirUniverse -> DirKinds] : \E exists, reversed \in BOOLEAN :
          /\ IsTree({d \in DirUniverse : kinds[d] # "absent"})
          /\ exists \/ ((\A d \in DirUniverse : kinds[d] = "absent") /\ ~reversed)
          /\ fs = TreeOf(kinds, exists, reversed)
    /\ schema = FALSE /\ clock = 0 /\ country_folders = <<>> /\ idx = 0
    /\ results = EmptyDict /\ outputs = EmptyDict /\ log = <<>>
    /\ CmpIdle
    /\ MergeIdle
    /\ ValIdle

DiscCall ==
    /\ pc = "disc_call"
    /\ country_folders' = DiscoverCountryFolders(fs)
    /\ pc' = "disc_done"
    /\ UNCHANGED <<valVars, cmpVars, mergeVars, fs, schema, clock, idx, results, outputs, log>>

DiscNext == DiscCall

SpecDisc == DiscInit /\ [][DiscNext]_vars

(***************************************************************************)
(* A whole run of consolidate_by_country over a data directory with up to  *)
(* MaxJsonDirs folders that hold files                                     *)
(***************************************************************************)
Entity(id, version, name) ==
    [id |-> id, type |-> "Drone", timestamp |-> TsValid, version |-> version, name |-> name]

DocV1 ==
    [title |-> <<"Iran Database v1">>, ies4Version |-> "4.1.0",
     vehicles |-> [list |-> << Entity("a", Ver("1", "0"), "Shahed-136") >>]]

DocV2 ==
    [title |-> <<"Iran Database v2">>, ies4Version |-> "4.3.0",
     vehicles |-> [list |-> << Entity("a", Ver("2", "0"), "Shahed-136 Enhanced"),
                               Entity("b", Ver("1", "0"), "Mohajer-10") >>],
     organizations |-> [list |-> << Entity("a", Ver("1", "0"), "IRGC") >>]]

DocDup ==
    [vehicles |-> [list |-> << Entity("a", Ver("1", "0"), "first"),
                               Entity("a", Ver("2", "0"), "second") >>]]

DocBare == [vehicles |-> [list |-> << [id |-> "a", type |-> "Drone"] >>]]

DocNumber == [vehicles |-> [list |-> << Entity("a", <<"#", "2">>, "number") >>]]

DocNoType ==
    [vehicles |-> [list |-> << [id |-> "b", timestamp |-> TsValid,
                                version |-> Ver("1", "0")] >>]]

\* people is no list here
DocScalar ==
    [vehicles |-> [list |-> << Entity("a", Ver("1", "0"), "Shahed-136") >>],
     people |-> [scalar |-> "text"]]

FolderKinds ==
    { "single", "single_dup", "single_bad", "single_bare", "single_scalar",
      "multi", "multi_old", "multi_raise", "multi_notype", "multi_bad" }

\* the contents of the files of a folder of that kind, in listing order
KindContents(kind) ==
    CASE kind = "single" -> << DocV1 >>
      [] kind = "single_dup" -> << DocDup >>
      [] kind = "single_bad" -> << BadJson >>
      [] kind = "single_bare" -> << DocBare >>
      [] kind = "single_scalar" -> << DocScalar >>
      [] kind = "multi" -> << DocV1, DocV2, BadJson >>
      [] kind = "multi_old" -> << DocV1, DocV1 >>
      [] kind = "multi_raise" -> << DocV1, DocNumber >>
      [] kind = "multi_notype" -> << DocV1, DocNoType >>
      [] kind = "multi_bad" -> << BadJson, BadJson >>

FolderFiles(d, contents) ==
    [i \in 1..Len(contents) |-> FileIn(d, i, ".json", contents[i])]

Prefixes(d) == {SubSeq(d, 1, k) : k \in 1..Len(d)}

\* the tree whose folders S hold files, with the directories above them
TreeWith(S, kinds, reversed) ==
    [exists |-> TRUE,
     dirs |-> UNION {Prefixes(d) : d \in S},
     files |-> [d \in UNION {Prefixes(x) : x \in S} |->
                   IF d \in S THEN FolderFiles(d, KindContents(kinds[d])) ELSE <<>>],
     reversed |-> reversed]

RunStart ==
    /\ pc = "start"
    /\ clock = 0 /\ country_folders = <<>> /\ idx = 0
    /\ results = EmptyDict /\ outputs = EmptyDict /\ log = <<>>
    /\ CmpIdle
    /\ MergeIdle
    /\ ValIdle

Init ==
    /\ \E S \in SUBSET DirUniverse : \E reversed \in BOOLEAN :
          /\ Cardinality(S) <= MaxJsonDirs
          /\ \E kinds \in [S -> FolderKinds] : fs = TreeWith(S, kinds, reversed)
    /\ schema \in BOOLEAN
    /\ RunStart

Spec == Init /\ [][Next]_vars

(***************************************************************************)
(* A run over a data directory with one folder, its files drawn from       *)
(* FolderEntityChoices                                                     *)
(***************************************************************************)
FolderEntityChoices ==
    { [coll |-> "vehicles", e |-> x] : x \in
        { [id |-> "a", type |-> "Drone", timestamp |-> TsValid, version |-> Ver("1", "0")],
          [id |-> "a", type |-> "Drone", timestamp |-> TsValid, version |-> Ver("2", "0")],
          [id |-> "a", type |-> "Drone", timestamp |-> TsValid, version |-> Ver("0", "9")],
          [id |-> "a", type |-> "Drone"],
          [id |-> "a", type |-> "Drone", timestamp |-> TsValid, version |-> <<"#", "2">>],
          [id |-> "b", timestamp |-> TsInvalid, version |-> Ver("1", "0")],
          [type |-> "Drone", timestamp |-> TsValid, version |-> Ver("1", "0")],
          [scalar |-> "text"] } }

FolderInit ==
    /\ \E n \in 1..MaxFiles : \E shapes \in [1..n -> FileShapes] :
          /\ TotalLen(shapes) <= MaxOcc
          /\ \E ents \in [1..TotalLen(shapes) -> FolderEntityChoices] :
                fs = [exists |-> TRUE, dirs |-> {MergeDir},
                      files |-> [d \in {MergeDir} |-> InputFiles(shapes, ents)],
                      reversed |-> FALSE]
    /\ schema \in BOOLEAN
    /\ RunStart

SpecFolder == FolderInit /\ [][Next]_vars

HasJson(f, d) == \E i \in 1..Len(f.files[d]) : f.files[d][i].ext = ".json"

\* the immediate subdirectories holding .json, and the immediate children
\* holding .json of the immediate subdirectories holding none
OneLevelFolders(f) ==
    {d \in f.dirs : Len(d) = 1 /\ HasJson(f, d)}
    \cup {d \in f.dirs : Len(d) = 2 /\ HasJson(f, d) /\ ~HasJson(f, SubSeq(d, 1, 1))}

\* the same, with every depth below an immediate subdirectory holding none
AnyDepthFolders(f) ==
    {d \in f.dirs : Len(d) = 1 /\ HasJson(f, d)}
    \cup {d \in f.dirs : Len(d) >= 2 /\ HasJson(f, d) /\ ~HasJson(f, SubSeq(d, 1, 1))}

NoDuplicates(seq) == \A i, j \in 1..Len(seq) : seq[i] = seq[j] => i = j

Range(seq) == {seq[i] : i \in 1..Len(seq)}

\* C7 as claimed: _discover_country_folders returns, each exactly once, the
\* immediate subdirectories that directly contain a .json file and the
\* immediate children containing one of the immediate subdirectories that
\* contain none, and nothing else.
C7_OneLevelExactly ==
    pc = "disc_done" =>
        /\ NoDuplicates(country_folders)
        /\ Range(country_folders) = (IF fs.exists THEN OneLevelFolders(fs) ELSE {})

\* C7 amended: _discover_country_folders returns, each exactly once, the
\* immediate subdirectories that directly contain a .json file and every
\* directory, at any depth, that directly contains a .json file and lies below
\* an immediate subdirectory that directly contains none, and nothing else.
C7_AnyDepthExactly ==
    pc = "disc_done" =>
        /\ NoDuplicates(country_folders)
        /\ Range(country_folders) = (IF fs.exists THEN AnyDepthFolders(fs) ELSE {})

\* C7 witness: a nested folder with two .json files and a deeper one with
\* .json below it are both returned, next to a top-level folder with .json.
C7_Witness ==
    /\ pc = "disc_done"
    /\ {DirOrder[2], DirOrder[3], DirOrder[6]} \subseteq fs.dirs
    /\ Len(Glob(fs, DirOrder[2])) = 2
    /\ InSeq(DirOrder[2], country_folders)
    /\ InSeq(DirOrder[3], country_folders)
    /\ InSeq(DirOrder[6], country_folders)

(***************************************************************************)
(* What a run leaves behind: log holds one entry per turn of the loop      *)
(***************************************************************************)
Collection(doc, entity_type) ==
    IF Has(doc, entity_type) /\ IsList(doc[entity_type]) THEN doc[entity_type].list
    ELSE <<>>

\* at most one entity per (entity-type, id)
UniquePerId(doc) ==
    \A t \in EntityTypeSet :
        \A i, j \in 1..Len(Collection(doc, t)) :
            LET lst == Collection(doc, t)
            IN  (HasId(lst[i]) /\ HasId(lst[j]) /\ lst[i]["id"] = lst[j]["id"]) => i = j

\* C2 as claimed: every document consolidate_by_country persists, by the merge
\* path or by the single-file path, holds at most one entity per
\* (entity-type, id).
C2_EveryPersistedUnique ==
    \A k \in DOMAIN outputs : outputs[k] # Truncated => UniquePerId(outputs[k])

\* C2 amended: every document persisted by the multi-file merge path holds at
\* most one entity per (entity-type, id); a document persisted by the
\* single-file path holds the collections of its source file as they are.
C2_MergePathUnique ==
    \A n \in 1..Len(log) :
        LET o == log[n].out
        IN  o.write = "full" =>
              /\ o.route = "merge" => UniquePerId(o.content)
              /\ o.route = "single" =>
                    \A t \in EntityTypeSet :
                        Collection(o.content, t)
                          = Collection(LoadJsonFile(Glob(fs, log[n].folder)[1]), t)

\* C2 witness: a folder of several files listing vehicle "a" more than once is
\* merged and written with one vehicle "a".
C2_Witness ==
    \E n \in 1..Len(log) :
        /\ log[n].out.route = "merge"
        /\ log[n].out.write = "full"
        /\ Len(OccOfId(Glob(fs, log[n].folder), "vehicles", "a")) >= 2
        /\ Cardinality(Survivors(Collection(log[n].out.content, "vehicles"), "a")) = 1

\* the files of a folder that parse
Parseable(files) == SelectSeq(files, LAMBDA file : LoadJsonFile(file) # None)

\* a merged document but for the number of files the folder listed
SaveFileCount(doc) == [doc EXCEPT !["consolidationMetadata"].sourceFileCount = 0]

\* C4: for a folder of several .json files of which some do not parse and at
\* least one does, consolidate_by_country hands to _save_consolidated_file the
\* document _merge_json_files builds from the parseable files alone (but for
\* the count of listed files), and when that document has no validation
\* violation and the write does not fail, the output file holds it and the
\* folder's result is true.
C4_UnparseableSkipped ==
    \A n \in 1..Len(log) :
        LET files == Glob(fs, log[n].folder)
            good == Parseable(files)
            o == log[n].out
        IN  (Len(files) > 1 /\ Len(good) >= 1 /\ Len(good) < Len(files)) =>
              LET m == MergeJsonFiles(good, log[n].timestamp)
              IN  /\ o.route = "merge"
                  /\ o.raised = m.raised
                  /\ ~o.raised =>
                        /\ SaveFileCount(o.handed) = SaveFileCount(m.data)
                        /\ (o.errors = <<>> /\ log[n].env.write = "ok") =>
                              /\ o.result /\ o.write = "full"
                              /\ \A t \in EntityTypeSet : o.content[t] = m.data[t]
                              /\ n = Len(log) =>
                                    /\ Has(outputs, OutputFile(log[n].key))
                                    /\ outputs[OutputFile(log[n].key)] = o.content
                                    /\ results[log[n].key] = TRUE

\* C4 witness: a folder with an unparseable file between two parseable ones
\* that both list vehicle "a" is written, with the one vehicle "a" of the
\* greater version.
C4_Witness ==
    \E n \in 1..Len(log) :
        LET files == Glob(fs, log[n].folder)
        IN  /\ Len(files) = 3
            /\ LoadJsonFile(files[2]) = None
            /\ Len(OccOfFile(files[1], "vehicles")) > 0
            /\ Len(OccOfId(files, "vehicles", "a")) >= 2
            /\ log[n].out.write = "full" /\ log[n].out.result
            /\ results[log[n].key] = TRUE
            /\ Collection(log[n].out.content, "vehicles") # <<>>
            /\ Collection(log[n].out.content, "vehicles")[1]["name"] = <<3, 1>>

\* C5: when consolidate_by_country returns, every discovered folder has been
\* processed exactly once, in discovery order, and whatever failed in the
\* other folders, each folder's entry in the result map is its own result and
\* the file written for it holds its own document.
C5_FailureIsolated ==
    pc = "done" =>
        /\ Len(log) = Len(country_folders)
        /\ \A n \in 1..Len(log) :
              /\ log[n].folder = country_folders[n]
              /\ Has(results, log[n].key)
              /\ results[log[n].key] = log[n].out.result
              /\ log[n].out.write = "full" =>
                    /\ Has(outputs, OutputFile(log[n].key))
                    /\ outputs[OutputFile(log[n].key)] = log[n].out.content

\* C6: a call of _save_consolidated_file with a document that has a
\* validation violation leaves every output file as it was and the folder's
\* result false; an output file changes only in a call whose document has no
\* violation.
C6_ValidateThenWrite ==
    [][ Len(log') = Len(log) + 1 =>
          LET turn == log'[Len(log')]
          IN  /\ turn.out.errors # <<>> =>
                    /\ outputs' = outputs
                    /\ turn.out.write = "none"
                    /\ results'[turn.key] = FALSE
              /\ outputs' # outputs =>
                    /\ ~Has(turn.out.handed, "none")
                    /\ ValidationErrors(turn.out.handed, schema,
                                        turn.env.schemaViolation) = <<>> ]_vars

\* C6 witness: a folder whose document has a violation was processed after
\* another folder had written the output file of the same name, and the file
\* still holds that folder's document.
C6_Witness ==
    \E n \in 2..Len(log) :
        /\ log[n].out.errors # <<>>
        /\ ~Has(log[n].out.handed, "none")
        /\ log[n - 1].key = log[n].key
        /\ log[n - 1].out.write = "full"
        /\ Len(log) = n
        /\ outputs[OutputFile(log[n].key)] = log[n - 1].out.content
        /\ results[log[n].key] = FALSE

Processed(d) == \E n \in 1..Len(log) : log[n].folder = d

\* C8 as claimed: no folder more than two levels below the data directory is
\* returned by _discover_country_folders or processed by
\* consolidate_by_country.
C8_TwoLevelCap ==
    /\ \A n \in 1..Len(country_folders) : Len(country_folders[n]) <= 2
    /\ \A n \in 1..Len(log) : Len(log[n].folder) <= 2

\* C8 amended: a folder more than two levels below the data directory is
\* returned by _discover_country_folders, and processed by
\* consolidate_by_country, exactly when it directly contains a .json file and
\* the immediate subdirectory of the data directory above it directly
\* contains none.
C8_DeepFoldersWhenTopHasNone ==
    \A d \in fs.dirs : Len(d) > 2 =>
        LET qualifies == HasJson(fs, d) /\ ~HasJson(fs, SubSeq(d, 1, 1))
        IN  /\ pc # "start" => (InSeq(d, country_folders) <=> qualifies)
            /\ pc = "done" => (Processed(d) <=> qualifies)
            /\ Processed(d) => qualifies

\* C8 witness: a folder three levels down has been processed and its output
\* file written.
C8_Witness ==
    /\ pc = "done"
    /\ \E n \in 1..Len(log) :
          /\ Len(log[n].folder) = 3
          /\ log[n].out.write = "full"
          /\ Has(outputs, OutputFile(log[n].key))

\* C10: two distinct discovered folders never share a folder key, an output
\* file or an entry of the result map: after the run the result map has one
\* entry per discovered folder.
C10_FoldersNeverShare ==
    /\ \A i, j \in 1..Len(country_folders) :
          i # j =>
            /\ FolderKey(country_folders[i]) # FolderKey(country_folders[j])
            /\ OutputFile(FolderKey(country_folders[i]))
                 # OutputFile(FolderKey(country_folders[j]))
    /\ pc = "done" => Cardinality(DOMAIN results) = Len(country_folders)

\* C11: for a folder with exactly one .json file that parses, the document
\* handed to _save_consolidated_file holds every entity collection of the
\* source file as it is, a consolidationMetadata block with sourceFileCount 1
\* and the tool's ies4Version, and when it has no validation violation and the
\* write does not fail it is written and the folder's result is true.
C11_SingleFileEnriched ==
    \A n \in 1..Len(log) :
        LET files == Glob(fs, log[n].folder)
            o == log[n].out
        IN  (Len(files) = 1 /\ LoadJsonFile(files[1]) # None) =>
              /\ o.route = "single"
              /\ ~Has(o.handed, "none")
              /\ \A t \in EntityTypeSet :
                    /\ Has(o.handed, t) <=> Has(LoadJsonFile(files[1]), t)
                    /\ Has(o.handed, t) => o.handed[t] = LoadJsonFile(files[1])[t]
              /\ o.handed["consolidationMetadata"].sourceFileCount = 1
              /\ o.handed["ies4Version"] = ies4_version
              /\ (o.errors = <<>> /\ log[n].env.write = "ok") =>
                    o.result /\ o.write = "full" /\ o.content = o.handed

(***************************************************************************)
(* consolidate_by_country called a second time on the unchanged data       *)
(* directory: the output files stay, the clock goes on                     *)
(***************************************************************************)
Restart ==
    /\ pc = "done"
    /\ Len(log) = Len(country_folders)
    /\ Len(log) > 0
    /\ pc' = "start"
    /\ UNCHANGED <<valVars, cmpVars, mergeVars, runVars>>

TwiceNext == Discover \/ ProcessFolder \/ Restart

SpecTwice == FolderInit /\ [][TwiceNext]_vars

ConsolidationStamps == {"_sourceFiles", "_consolidatedAt", "_replacedVersion"}

Without(d, keys) == [k \in DOMAIN d \ keys |-> d[k]]

\* an entity without its consolidation stamps
Unstamped(e) == IF IsDict(e) THEN Without(e, ConsolidationStamps) ELSE e

\* the same, a timestamp equal to the merge timestamp left out as well
UnstampedContent(e, timestamp) ==
    IF IsDict(e) /\ Has(e, "timestamp") /\ e["timestamp"] = timestamp
    THEN Without(e, ConsolidationStamps \cup {"timestamp"})
    ELSE Unstamped(e)

\* both runs are over and both wrote the folder's document
BothWritten ==
    /\ pc = "done" /\ Len(log) = 2
    /\ log[1].out.write = "full" /\ log[2].out.write = "full"

\* C12 as claimed: the documents two runs over the unchanged folder write
\* have the same entityCounts and, entity by entity, the same content apart
\* from the consolidation stamps.
C12_RerunSameContent ==
    BothWritten =>
        LET d1 == log[1].out.content
            d2 == log[2].out.content
        IN  /\ d1["consolidationMetadata"].entityCounts
                 = d2["consolidationMetadata"].entityCounts
            /\ \A t \in EntityTypeSet :
                  /\ Len(Collection(d1, t)) = Len(Collection(d2, t))
                  /\ \A i \in 1..Len(Collection(d1, t)) :
                        Unstamped(Collection(d1, t)[i]) = Unstamped(Collection(d2, t)[i])

\* C12 amended: the same, apart from the consolidation stamps and from the
\* timestamp of an entity that the merge set to the run's merge timestamp
\* because the source entity has none.
C12_RerunSameButDefaultedTimestamp ==
    BothWritten =>
        LET d1 == log[1].out.content
            d2 == log[2].out.content
        IN  /\ d1["consolidationMetadata"].entityCounts
                 = d2["consolidationMetadata"].entityCounts
            /\ \A t \in EntityTypeSet :
                  /\ Len(Collection(d1, t)) = Len(Collection(d2, t))
                  /\ \A i \in 1..Len(Collection(d1, t)) :
                        UnstampedContent(Collection(d1, t)[i], log[1].timestamp)
                          = UnstampedContent(Collection(d2, t)[i], log[2].timestamp)

\* C12 witness: two runs merged a folder with a vehicle whose source has
\* neither timestamp nor version; the two documents give it version "1.0" and
\* different timestamps.
C12_Witness ==
    /\ BothWritten
    /\ log[1].out.route = "merge"
    /\ log[1].timestamp # log[2].timestamp
    /\ \E i \in 1..Len(Collection(log[1].out.content, "vehicles")) :
          LET a == Collection(log[1].out.content, "vehicles")[i]
              b == Collection(log[2].out.content, "vehicles")[i]
          IN  /\ a["timestamp"] = log[1].timestamp
              /\ b["timestamp"] = log[2].timestamp
              /\ a["version"] = DefaultVersion /\ b["version"] = DefaultVersion

\* the files _merge_json_files goes on with after `if not data: continue`
Loaded(files) == SelectSeq(files, LAMBDA file : ~Falsy(LoadJsonFile(file)))

\* C13 as claimed: in the document _merge_json_files returns, sourceFileCount
\* is the number of files that parsed, which is the length of
\* consolidatedFiles; a file that failed to parse is not counted.
C13_CountsParsedFiles ==
    MergeDone =>
        LET meta == merged.data["consolidationMetadata"]
        IN  /\ meta.sourceFileCount = Len(Parseable(mfiles))
            /\ meta.sourceFileCount = Len(meta.consolidatedFiles)

\* C13 amended: sourceFileCount is the number of files handed to
\* _merge_json_files, the ones that failed to parse included; consolidatedFiles
\* lists, in processing order, the files that loaded as a non-empty document.
C13_CountsListedFiles ==
    MergeDone =>
        LET meta == merged.data["consolidationMetadata"]
        IN  /\ meta.sourceFileCount = Len(mfiles)
            /\ Len(meta.consolidatedFiles) = Len(Loaded(mfiles))
            /\ \A i \in 1..Len(meta.consolidatedFiles) :
                  meta.consolidatedFiles[i].path = RelativePath(Loaded(mfiles)[i])

\* C13 witness: three files were merged of which one does not parse; the count
\* is 3 and two files are listed.
C13_Witness ==
    /\ MergeDone
    /\ Len(mfiles) = 3 /\ Len(Parseable(mfiles)) = 2
    /\ merged.data["consolidationMetadata"].sourceFileCount = 3
    /\ Len(merged.data["consolidationMetadata"].consolidatedFiles) = 2

\* C14: the document written for a folder of several .json files carries as
\* sourceFileCount the number of .json files found in the folder, the files
\* that failed to parse included.
C14_CountIncludesFailedFiles ==
    \A n \in 1..Len(log) :
        (log[n].out.route = "merge" /\ log[n].out.write = "full") =>
            log[n].out.content["consolidationMetadata"].sourceFileCount
              = Len(Glob(fs, log[n].folder))

\* C14 witness: a folder with two valid files and one that does not parse is
\* written with sourceFileCount 3.
C14_Witness ==
    \E n \in 1..Len(log) :
        LET files == Glob(fs, log[n].folder)
        IN  /\ Len(files) = 3 /\ Len(Loaded(files)) = 2 /\ Len(Parseable(files)) = 2
            /\ log[n].out.write = "full"
            /\ Has(outputs, OutputFile(log[n].key))
            /\ outputs[OutputFile(log[n].key)]["consolidationMetadata"].sourceFileCount = 3

(***************************************************************************)
(* _validate_ies4_compliance on its own: documents whose vehicles hold up  *)
(* to MaxValEnts entities, every field absent or drawn from a few values   *)
(***************************************************************************)
MaxValEnts == 2

Absent == "absent"

OptPut(d, k, v) == IF v = <<Absent>> THEN d ELSE Put(d, k, v[1])

ValEntityChoices ==
    { OptPut(OptPut(OptPut(OptPut(EmptyDict, "id", id), "type", type),
                    "timestamp", timestamp), "version", version) :
        id \in {<<Absent>>, <<"a">>, <<"">>, <<" ">>, <<NumberId>>},
        type \in {<<Absent>>, <<"Drone">>, <<"">>},
        timestamp \in {<<Absent>>, <<TsValid>>, <<TsInvalid>>},
        version \in {<<Absent>>, <<Ver("1", "0")>>} }
    \cup { [scalar |-> "text"] }

ValInit ==
    /\ pc = "val_call"
    /\ \E n \in 1..MaxValEnts : \E ents \in [1..n -> ValEntityChoices] :
       \E extra \in {"none", "scalar", "unknown"} :
          vdata = CASE extra = "scalar" ->
                         [vehicles |-> [list |-> ents], people |-> [scalar |-> "text"]]
                    [] extra = "unknown" ->
                         [vehicles |-> [list |-> ents],
                          weapons |-> [list |-> << [scalar |-> "text"] >>]]
                    [] OTHER -> [vehicles |-> [list |-> ents]]
    /\ verrors = <<>>
    /\ CmpIdle
    /\ MergeIdle
    /\ RunIdle

ValCall ==
    /\ pc = "val_call"
    /\ verrors' = ValidateIes4Compliance(vdata)
    /\ pc' = "val_done"
    /\ UNCHANGED <<vdata, cmpVars, mergeVars, runVars>>

ValNext == ValCall

SpecValidate == ValInit /\ [][ValNext]_vars

RequiredFields == {required_ies4_fields[k] : k \in 1..Len(required_ies4_fields)}

\* what the code asks of an entity
Conforming(e) ==
    /\ IsDict(e)
    /\ \A f \in RequiredFields : Has(e, f)
    /\ ~InvalidId(e["id"])
    /\ ValidateTimestamp(e["timestamp"])

\* what the claim asks of an entity: a non-empty string id, a non-empty type,
\* no timestamp or a valid one
ClaimedConforming(e) ==
    /\ IsDict(e)
    /\ Has(e, "id") /\ e["id"] \notin {"", NumberId}
    /\ Has(e, "type") /\ e["type"] # ""
    /\ Has(e, "timestamp") => ValidateTimestamp(e["timestamp"])

\* the violations reported for entity number i (from 0) of entity_type
ReportedFor(entity_type, i) ==
    {v \in Range(verrors) : v.entity_type = entity_type /\ v.index = i}

\* C15 as claimed: _validate_ies4_compliance returns the empty list exactly
\* for the documents whose entities have a non-empty string id, a non-empty
\* type and no timestamp or a valid one; timestamp and version are not
\* required.
C15_IdAndTypeSuffice ==
    pc = "val_done" =>
        (verrors = <<>> <=>
            \A t \in EntityTypeSet : \A i \in 1..Len(Collection(vdata, t)) :
                ClaimedConforming(Collection(vdata, t)[i]))

\* C15 amended: _validate_ies4_compliance returns the empty list exactly for
\* the documents in which every entity of every recognized list-valued
\* collection is a mapping that has id, type, timestamp and version, its id a
\* string that is not blank and its timestamp valid; otherwise it reports, for
\* each entity, that it is not a mapping, or each missing field by name, an
\* invalid id and an invalid timestamp, each with the entity-type and the
\* index, so an entity without id and type gets at least two violations.
C15_FourFieldsRequired ==
    pc = "val_done" =>
        /\ verrors = <<>> <=>
              \A t \in EntityTypeSet : \A i \in 1..Len(Collection(vdata, t)) :
                  Conforming(Collection(vdata, t)[i])
        /\ \A v \in Range(verrors) :
              /\ v.entity_type \in EntityTypeSet
              /\ v.index + 1 \in 1..Len(Collection(vdata, v.entity_type))
        /\ \A t \in EntityTypeSet : \A i \in 1..Len(Collection(vdata, t)) :
              LET e == Collection(vdata, t)[i]
              IN  IF ~IsDict(e)
                  THEN ReportedFor(t, i - 1)
                         = {Violation(t, i - 1, "Entity must be an object", "")}
                  ELSE /\ \A f \in RequiredFields :
                            ~Has(e, f) <=>
                               Violation(t, i - 1, "Missing required field", f)
                                 \in ReportedFor(t, i - 1)
                       /\ (Has(e, "id") /\ InvalidId(e["id"])) <=>
                             Violation(t, i - 1, "Invalid ID format", "id")
                               \in ReportedFor(t, i - 1)
                       /\ (Has(e, "timestamp") /\ ~ValidateTimestamp(e["timestamp"])) <=>
                             Violation(t, i - 1, "Invalid timestamp format", "timestamp")
                               \in ReportedFor(t, i - 1)
                       /\ (~Has(e, "id") /\ ~Has(e, "type")) =>
                             Cardinality(ReportedFor(t, i - 1)) >= 2

\* C15 witness: a document whose second vehicle has neither id nor type, the
\* first one having all four fields, got violations for the second only.
C15_Witness ==
    /\ pc = "val_done"
    /\ Len(Collection(vdata, "vehicles")) = 2
    /\ Conforming(Collection(vdata, "vehicles")[1])
    /\ IsDict(Collection(vdata, "vehicles")[2])
    /\ ~Has(Collection(vdata, "vehicles")[2], "id")
    /\ ~Has(Collection(vdata, "vehicles")[2], "type")
    /\ ReportedFor("vehicles", 0) = {}
    /\ Cardinality(ReportedFor("vehicles", 1)) >= 2

(***************************************************************************)
(* The merge of documents that carry title, description and ies4Version    *)
(***************************************************************************)
MetaChoices ==
    [title : {"absent", "own", "default"}, description : {"absent", "own"},
     ies4Version : {"absent", "4.3.0", "4.1.0"}, weapons : BOOLEAN, bad : {FALSE}]
    \cup {[title |-> "absent", description |-> "absent", ies4Version |-> "absent",
           weapons |-> FALSE, bad |-> TRUE]}

\* file i of the folder, its title and description its own; weapons is a key
\* that is no entity type
MetaFile(i, choice) ==
    LET d0 == IF choice.weapons
              THEN [vehicles |-> [list |-> <<>>],
                    weapons |-> [list |-> << [id |-> "w", name |-> <<i, 1>>] >>]]
              ELSE [vehicles |-> [list |-> <<>>]]
        d1 == CASE choice.title = "own" -> Put(d0, "title", <<"title ", ToString(i)>>)
                [] choice.title = "default" -> Put(d0, "title", <<DefaultTitle[2]>>)
                [] OTHER -> d0
        d2 == IF choice.description = "own"
              THEN Put(d1, "description", <<"description ", ToString(i)>>) ELSE d1
        d3 == IF choice.ies4Version = "absent" THEN d2
              ELSE Put(d2, "ies4Version", choice.ies4Version)
    IN  [dir |-> MergeDir, name |-> FileName(i), ext |-> ".json", size |-> 100 + i,
         content |-> IF choice.bad THEN BadJson ELSE d3]

MetaInit ==
    /\ pc = "merge_call"
    /\ \E n \in 1..MaxFiles : \E choices \in [1..n -> MetaChoices] :
          mfiles = [i \in 1..n |-> MetaFile(i, choices[i])]
    /\ mnow \in NowValues
    /\ merged = None
    /\ CmpIdle
    /\ RunIdle
    /\ ValIdle

SpecMeta == MetaInit /\ [][MergeNext]_vars

\* the documents the merge goes through, in processing order
LoadedDocs(files) == [i \in 1..Len(Loaded(files)) |-> LoadJsonFile(Loaded(files)[i])]

\* the first of them that carries the key, 0 if none does
FirstWith(docs, key) ==
    IF \E i \in 1..Len(docs) : Has(docs[i], key)
    THEN CHOOSE i \in 1..Len(docs) :
            Has(docs[i], key) /\ \A j \in 1..(i - 1) : ~Has(docs[j], key)
    ELSE 0

\* C16: the title _merge_json_files returns is "Consolidated " followed by the
\* title of the first document that carries a title, its description the
\* description of the first document that carries one (the initial ones when
\* no document does); no later document overwrites them.
C16_FirstTitleAndDescriptionKept ==
    MergeDone =>
        LET docs == LoadedDocs(mfiles)
            ft == FirstWith(docs, "title")
            fd == FirstWith(docs, "description")
        IN  /\ merged.data["title"] =
                  (IF ft = 0 THEN DefaultTitle ELSE <<"Consolidated ">> \o docs[ft]["title"])
            /\ merged.data["description"] =
                  (IF fd = 0 THEN <<"Consolidated database created on ", mnow>>
                   ELSE docs[fd]["description"])

\* the keys of a document that are neither entity types nor its title,
\* description and version tags
UnrecognizedKeys(doc) ==
    DOMAIN doc \ (EntityTypeSet \cup {"title", "description", "ies4Version",
                                      "specificationDate", "$schema"})

\* C17: every key of a merged document that is not a recognized entity type
\* (nor a title, description or version tag) is in the document
\* _merge_json_files returns, with the value one of the source documents gives it.
C17_UnrecognizedKeysPassedThrough ==
    MergeDone =>
        \A i \in 1..Len(LoadedDocs(mfiles)) :
            \A k \in UnrecognizedKeys(LoadedDocs(mfiles)[i]) :
                /\ Has(merged.data, k)
                /\ \E j \in 1..Len(LoadedDocs(mfiles)) :
                      Has(LoadedDocs(mfiles)[j], k)
                        /\ merged.data[k] = LoadedDocs(mfiles)[j][k]

\* the entity comes from a file of that folder
FromFolder(e, folder) ==
    /\ Len(e["_sourceFiles"]) = 1
    /\ SubSeq(e["_sourceFiles"][1], 1, Len(e["_sourceFiles"][1]) - 1) = folder

\* C18: what a folder of several files is merged to holds, for every
\* (entity-type, id) of its files, one entity taken from a file of that folder,
\* and is the merge of that folder's files alone, whatever the other folders
\* hold and whenever they are processed.
C18_DedupScopedToFolder ==
    \A n \in 1..Len(log) :
        (log[n].out.route = "merge" /\ ~log[n].out.raised) =>
            LET own == MergeJsonFiles(Glob(fs, log[n].folder), log[n].timestamp)
                doc == log[n].out.handed
            IN  /\ ~own.raised
                /\ \A t \in EntityTypeSet :
                      /\ doc[t] = own.data[t]
                      /\ \A i \in 1..Len(doc[t].list) : FromFolder(doc[t].list[i], log[n].folder)
                      /\ \A id \in InputIds :
                            Cardinality(Survivors(doc[t].list, id))
                              = (IF OccOfId(Glob(fs, log[n].folder), t, id) # <<>>
                                 THEN 1 ELSE 0)

\* C18 witness: two folders of several files both list vehicle "a", one up to
\* version 2.0 and one at version 1.0 only; both were written, each with its
\* own version, the folder with the greater version first.
C18_Witness ==
    /\ Len(log) = 2
    /\ log[1].key # log[2].key
    /\ log[1].out.route = "merge" /\ log[2].out.route = "merge"
    /\ log[1].out.write = "full" /\ log[2].out.write = "full"
    /\ Cardinality(Survivors(outputs[OutputFile(log[1].key)]["vehicles"].list, "a")) = 1
    /\ outputs[OutputFile(log[1].key)]["vehicles"].list[1]["version"] = Ver("2", "0")
    /\ outputs[OutputFile(log[2].key)]["vehicles"].list[1]["version"] = Ver("1", "0")
    /\ FromFolder(outputs[OutputFile(log[2].key)]["vehicles"].list[1], log[2].folder)

\* the ids of a sequence of ids, each at its first occurrence
RECURSIVE FirstOccurrences(_, _)
FirstOccurrences(ids, seen) ==
    IF ids = <<>> THEN <<>>
    ELSE IF ids[1] \in seen THEN FirstOccurrences(Tail(ids), seen)
    ELSE <<ids[1]>> \o FirstOccurrences(Tail(ids), seen \cup {ids[1]})

\* the ids of the id-bearing occurrences of entity_type, in processing order
OccIds(files, entity_type) ==
    LET withId == SelectSeq(AllOcc(files, entity_type), LAMBDA o : HasId(o.e))
    IN  [i \in 1..Len(withId) |-> withId[i].e["id"]]

\* going through the occurrences occ[k..] of one id: cur is the occurrence
\* stored so far, prev the one it superseded (0: none)
RECURSIVE Superseding(_, _, _, _)
Superseding(occ, k, cur, prev) ==
    IF k > Len(occ) THEN [cur |-> cur, prev |-> prev]
    ELSE IF CompareVersions(VersionOf(occ[k].e), VersionOf(occ[cur].e)) > 0
    THEN Superseding(occ, k + 1, k, cur)
    ELSE Superseding(occ, k + 1, cur, prev)

\* C19: in every collection _merge_json_files returns, the ids stand in the
\* order of their first occurrence in the input, one entity per id; the entity
\* stored for an id is the last occurrence that had a strictly greater version
\* than the one stored before it, and it carries as _replacedVersion the
\* version of the occurrence it superseded (none if it is the first
\* occurrence).
C19_ReplacedInPlace ==
    MergeDone =>
        \A t \in EntityTypeSet :
            LET lst == merged.data[t].list
            IN  /\ [i \in 1..Len(lst) |-> lst[i]["id"]]
                      = FirstOccurrences(OccIds(mfiles, t), {})
                /\ \A i \in 1..Len(lst) :
                      LET occ == OccOfId(mfiles, t, lst[i]["id"])
                          r == Superseding(occ, 2, 1, 0)
                      IN  /\ lst[i]["name"] = occ[r.cur].e["name"]
                          /\ lst[i]["_sourceFiles"] = <<occ[r.cur].path>>
                          /\ Has(lst[i], "_replacedVersion") <=> r.prev # 0
                          /\ r.prev # 0 =>
                                lst[i]["_replacedVersion"] = VersionOf(occ[r.prev].e)

\* C19 witness: vehicle "a" of version 1.0, then vehicle "b", then vehicle "a"
\* of version 2.0: the output lists "a" before "b", "a" being the later
\* occurrence with _replacedVersion 1.0.
C19_Witness ==
    /\ MergeDone
    /\ OccIds(mfiles, "vehicles") = <<"a", "b", "a">>
    /\ Len(merged.data["vehicles"].list) = 2
    /\ merged.data["vehicles"].list[1]["id"] = "a"
    /\ merged.data["vehicles"].list[2]["id"] = "b"
    /\ merged.data["vehicles"].list[1]["version"] = Ver("2", "0")
    /\ Has(merged.data["vehicles"].list[1], "_replacedVersion")
    /\ merged.data["vehicles"].list[1]["_replacedVersion"] = Ver("1", "0")

\* C20: every entity in the document _merge_json_files returns, added on
\* first sight or put there by a replacement, carries _sourceFiles with the one
\* path it came from, _consolidatedAt with the merge timestamp, a timestamp and
\* a version; so validation reports no missing timestamp or version for the
\* merged document.
C20_StampsAndDefaultsOnEveryEntity ==
    MergeDone =>
        /\ \A t \in EntityTypeSet : \A i \in 1..Len(merged.data[t].list) :
              LET e == merged.data[t].list[i]
              IN  /\ Has(e, "_sourceFiles") /\ Len(e["_sourceFiles"]) = 1
                  /\ Has(e, "_consolidatedAt") /\ e["_consolidatedAt"] = mnow
                  /\ Has(e, "timestamp")
                  /\ Has(e, "version")
        /\ \A v \in Range(ValidateIes4Compliance(merged.data)) :
              ~(v.rule = "Missing required field" /\ v.field \in {"timestamp", "version"})

\* the entity types under which the document holds a non-empty list
NonEmptyTypes(doc) == {t \in EntityTypeSet : Collection(doc, t) # <<>>}

\* entityCounts is right for the document
CountsMatch(doc) ==
    LET counts == doc["consolidationMetadata"].entityCounts
    IN  /\ DOMAIN counts = NonEmptyTypes(doc)
        /\ \A t \in DOMAIN counts : counts[t] = Len(Collection(doc, t)) /\ counts[t] > 0

\* C21: in every document handed to _save_consolidated_file and in every
\* document written, by the merge path or the single-file path, entityCounts
\* has a key for exactly the recognized entity types whose collection is a
\* non-empty list, its value the length of that collection, never zero.
C21_EntityCountsMatchCollections ==
    /\ \A n \in 1..Len(log) :
          ~Has(log[n].out.handed, "none") =>
              /\ CountsMatch(log[n].out.handed)
              /\ log[n].out.write = "full" => CountsMatch(log[n].out.content)
    /\ \A k \in DOMAIN outputs : outputs[k] # Truncated => CountsMatch(outputs[k])

\* C21 witness: a merged document with two vehicles and one organization and
\* a single-file document whose people is no list were both written, the
\* first counting vehicles 2 and organizations 1, the second vehicles 1.
C21_Witness ==
    /\ Len(log) = 2
    /\ log[1].key # log[2].key
    /\ \E n, m \in 1..2 :
          /\ log[n].out.route = "merge" /\ log[n].out.write = "full"
          /\ outputs[OutputFile(log[n].key)]["consolidationMetadata"].entityCounts
               = [vehicles |-> 2, organizations |-> 1]
          /\ log[m].out.route = "single" /\ log[m].out.write = "full"
          /\ Has(outputs[OutputFile(log[m].key)], "people")
          /\ outputs[OutputFile(log[m].key)]["consolidationMetadata"].entityCounts
               = [vehicles |-> 1]

\* C22: a folder none of whose .json files parses, be it one file or several,
\* is marked false and nothing is written for it; a folder is marked true or
\* written only if one of its files was loaded.
C22_AllUnparseableMarkedFalse ==
    \A n \in 1..Len(log) :
        Parseable(Glob(fs, log[n].folder)) = <<>> =>
            /\ ~log[n].out.result
            /\ log[n].out.write = "none"
            /\ n = Len(log) =>
                  /\ results[log[n].key] = FALSE
                  /\ ~Has(outputs, OutputFile(log[n].key))

====
